---- MODULE Spec2Model ----
(***************************************************************************)
(* Heat/station scheduling of a competition rundown.                       *)
(*                                                                         *)
(* services/rundownService.ts : addMinutes, getEntryIndex,                 *)
(*                              getSortableEntryCode, scheduleParticipants *)
(* stores/namelist (store)    : getRundownConfig, clearRundown,            *)
(*                              generateRundown, swapParticipants, undo    *)
(*                                                                         *)
(* Strings the code trims, splits, pads or collates (event codes, entry    *)
(* codes, HH:MM times, configuration keys) are sequences of one-character  *)
(* strings.  Strings the code only tests for equality or truthiness (ids,  *)
(* divisions, group ids) are plain strings; "" is the falsy string.        *)
(* An optional field is <<>> when undefined and <<v>> when it holds v.     *)
(***************************************************************************)
EXTENDS Integers, Sequences, FiniteSets, TLC

VARIABLES
    participants,         \* store: participants.value / scheduler: the roster argument
    events,               \* store: events.value / scheduler: the event list argument
    entryCodes,           \* store: entryCodes.value / scheduler: the prefix map argument
    eventRundownConfigs,  \* store: eventRundownConfigs.value, read by getRundownConfig
    history,              \* store: history.value (single-step undo)
    options,              \* the ScheduleOptions of the scheduleParticipants call of the last step
    results,              \* the list that call returned
    caller,               \* who made that call; "none" when the last step made no call
    swapCount,            \* how many times swapParticipants was called by the view
    localDay              \* the local calendar `new Date()` of addMinutes falls in

vars == <<participants, events, entryCodes, eventRundownConfigs, history,
          options, results, caller, swapCount, localDay>>

----------------------------------------------------------------------------
(* Bounds of the model *)

MaxParts == 3        \* longest roster handed to the scheduler on its own
MaxStoreParts == 3   \* longest roster of the store
MaxHeat == 5         \* highest heat number the store may hold (appending never stops by itself)
MaxSwaps == 1        \* most calls of swapParticipants in one run

----------------------------------------------------------------------------
(* Optional values *)

None == <<>>
Some(v) == <<v>>
IsSet(o) == o # <<>>
Val(o) == o[1]

----------------------------------------------------------------------------
(* JavaScript string primitives used by the service *)

DigitChars == <<"0", "1", "2", "3", "4", "5", "6", "7", "8", "9">>

IsDigit(c) == \E i \in 1..Len(DigitChars) : DigitChars[i] = c

DigitValue(c) == (CHOOSE i \in 1..Len(DigitChars) : DigitChars[i] = c) - 1

IsSpace(c) == c = " "

RECURSIVE TrimStart(_)
TrimStart(s) ==
    IF s # <<>> /\ IsSpace(Head(s)) THEN TrimStart(Tail(s)) ELSE s

RECURSIVE TrimEnd(_)
TrimEnd(s) ==
    IF s # <<>> /\ IsSpace(s[Len(s)]) THEN TrimEnd(SubSeq(s, 1, Len(s) - 1)) ELSE s

\* const norm = (s: string) => (s || '').trim()
norm(s) == TrimEnd(TrimStart(s))

\* Collation weight of a character: white space, punctuation, digits, letters.
CollRank(c) ==
    CASE c = " " -> 0
      [] c = "-" -> 1
      [] c = ":" -> 2
      [] IsDigit(c) -> 3 + DigitValue(c)
      [] c = "A" -> 13
      [] c = "B" -> 14
      [] c = "C" -> 15
      [] c = "G" -> 16
      [] c = "L" -> 17
      [] c = "O" -> 18
      [] OTHER -> 19

\* a.localeCompare(b): negative, zero or positive
RECURSIVE localeCompare(_, _)
localeCompare(a, b) ==
    IF a = <<>> /\ b = <<>> THEN 0
    ELSE IF a = <<>> THEN -1
    ELSE IF b = <<>> THEN 1
    ELSE IF CollRank(Head(a)) < CollRank(Head(b)) THEN -1
    ELSE IF CollRank(Head(a)) > CollRank(Head(b)) THEN 1
    ELSE localeCompare(Tail(a), Tail(b))

\* String(n) for an integer n
RECURSIVE DecimalDigits(_)
DecimalDigits(n) ==
    IF n < 10 THEN <<DigitChars[n + 1]>>
    ELSE DecimalDigits(n \div 10) \o <<DigitChars[(n % 10) + 1]>>

NumberToString(n) == IF n < 0 THEN <<"-">> \o DecimalDigits(0 - n) ELSE DecimalDigits(n)

\* s.padStart(len, c)
padStart(s, len, c) ==
    IF Len(s) >= len THEN s ELSE [i \in 1..(len - Len(s)) |-> c] \o s

\* Number(s) || 0 for the part of a time string: a run of digits is its
\* value, anything else (empty, missing, non-numeric) counts as 0.
RECURSIVE DigitsValue(_, _)
DigitsValue(s, acc) ==
    IF s = <<>> THEN acc ELSE DigitsValue(Tail(s), 10 * acc + DigitValue(Head(s)))

NumberOrZero(s) ==
    LET t == norm(s)
    IN  IF t # <<>> /\ \A i \in 1..Len(t) : IsDigit(t[i]) THEN DigitsValue(t, 0) ELSE 0

\* timeStr.split(':') : parts[0] and parts[1] (<<>> when missing)
ColonAt(s) ==
    IF \E i \in 1..Len(s) : s[i] = ":"
    THEN CHOOSE i \in 1..Len(s) : s[i] = ":" /\ \A j \in 1..(i - 1) : s[j] # ":"
    ELSE Len(s) + 1

SplitPart0(s) == SubSeq(s, 1, ColonAt(s) - 1)

SplitPart1(s) ==
    LET rest == SubSeq(s, ColonAt(s) + 1, Len(s))
    IN  SubSeq(rest, 1, ColonAt(rest) - 1)

----------------------------------------------------------------------------
(* Time arithmetic *)

MinutesPerHour == 60
HoursPerDay == 24

\* The local calendar around `new Date()`: no change of the clocks, or a
\* daylight-saving start that skips one local hour (the clocks go forward by
\* an hour) on the day of the call (day 0) or on the next one (day 1).
NoClockChange == None
SkippedHour(day, hour) == Some([day |-> day, hour |-> hour])

\* The local time a Date holds once its local fields are set to `local`
\* minutes after the midnight the day of the call begins with: a local time
\* in the skipped hour is read with the offset from before the change, which
\* is the local time one hour later.
wallClock(local) ==
    IF IsSet(localDay)
       /\ local \div MinutesPerHour = Val(localDay).day * HoursPerDay + Val(localDay).hour
    THEN local + MinutesPerHour
    ELSE local

\* addMinutes(timeStr, minutes), as Date.setHours / setMinutes / getHours /
\* getMinutes compute it on the local calendar
addMinutes(timeStr, minutes) ==
    LET h == NumberOrZero(SplitPart0(timeStr))
        m == NumberOrZero(SplitPart1(timeStr))
        set == wallClock(h * MinutesPerHour + m)
        total == wallClock(set + minutes)
        newH == (total \div MinutesPerHour) % HoursPerDay
        newM == total % MinutesPerHour
    IN  padStart(NumberToString(newH), 2, "0") \o <<":">> \o padStart(NumberToString(newM), 2, "0")

----------------------------------------------------------------------------
(* Entry index and sortable entry code *)

\* list.indexOf(x): 0-based position of the first occurrence, -1 when absent
indexOf(list, x) ==
    IF \E i \in 1..Len(list) : list[i] = x
    THEN (CHOOSE i \in 1..Len(list) : list[i] = x /\ \A j \in 1..(i - 1) : list[j] # x) - 1
    ELSE -1

\* list.filter(pred) for a predicate given as the set of accepted elements
RECURSIVE filterSeq(_, _)
filterSeq(list, keep) ==
    IF list = <<>> THEN <<>>
    ELSE IF Head(list) \in keep THEN <<Head(list)>> \o filterSeq(Tail(list), keep)
    ELSE filterSeq(Tail(list), keep)

SeqRange(list) == {list[i] : i \in 1..Len(list)}

\* the for-loop of getEntryIndex from position i on
RECURSIVE scanEntryIndex(_, _, _, _, _)
scanEntryIndex(p, list, i, entryCounter, processedGroups) ==
    IF i > Len(list) THEN -1
    ELSE LET item == list[i]
         IN  IF item.groupId # ""
             THEN LET counter == IF item.groupId \in processedGroups
                                 THEN entryCounter ELSE entryCounter + 1
                  IN  IF item.id = p.id THEN counter
                      ELSE scanEntryIndex(p, list, i + 1, counter,
                                          processedGroups \cup {item.groupId})
             ELSE IF item.id = p.id THEN entryCounter + 1
                  ELSE scanEntryIndex(p, list, i + 1, entryCounter + 1, processedGroups)

\* the position of an ungrouped participant is returned as indexOf gives it
getEntryIndexZeroBased(p, list) ==
    IF p.groupId = "" THEN indexOf(list, p)
    ELSE scanEntryIndex(p, list, 1, 0, {})

getEntryIndex(p, list) ==
    IF p.groupId = "" THEN indexOf(list, p) + 1
    ELSE scanEntryIndex(p, list, 1, 0, {})

EntryIndexWidth == 3

\* the sentinel entry code '-'
NoEntryCode == <<"-">>

\* entryCodePrefixes[`${eventCode}|${division}`]; the key is the pair
prefixOf(entryCodePrefixes, eventCode, division) ==
    IF <<eventCode, division>> \in DOMAIN entryCodePrefixes
    THEN entryCodePrefixes[<<eventCode, division>>]
    ELSE <<>>

getSortableEntryCode(p, allParticipants, entryCodePrefixes) ==
    LET prefix == prefixOf(entryCodePrefixes, p.eventCode, p.division)
        divParts == filterSeq(allParticipants,
                        {x \in SeqRange(allParticipants) :
                            x.eventCode = p.eventCode /\ x.division = p.division})
        index == getEntryIndex(p, divParts)
    IN  IF prefix = <<>> THEN NoEntryCode
        ELSE prefix \o padStart(NumberToString(index), EntryIndexWidth, "0")

----------------------------------------------------------------------------
(* Configuration resolver of the store *)

GLOBAL == <<"G", "L", "O", "B", "A", "L">>

getRundownConfig(configs, eventCode) ==
    IF eventCode # <<>> /\ norm(eventCode) \in DOMAIN configs
    THEN configs[norm(eventCode)]
    ELSE configs[GLOBAL]

----------------------------------------------------------------------------
(* scheduleParticipants *)

Truthy(o) == IsSet(o) /\ Val(o) # <<>>

\* the target event is ignored
\* an empty selection falls back to the whole roster
partsToScheduleOrRoster(parts, opts) ==
    LET selected == filterSeq(parts, {p \in SeqRange(parts) :
                                          p.eventCode = Val(opts.targetEventCode)})
    IN  IF Truthy(opts.targetEventCode) /\ selected # <<>> THEN selected ELSE parts

partsToScheduleAll(parts, opts) == parts

\* 1. Filter Check
partsToSchedule(parts, opts) ==
    IF Truthy(opts.targetEventCode)
    THEN filterSeq(parts, {p \in SeqRange(parts) : p.eventCode = Val(opts.targetEventCode)})
    ELSE parts

\* events.findIndex(e => norm(e.code) === code): 0-based, -1 when absent
findEventIndex(evts, code) ==
    IF \E i \in 1..Len(evts) : norm(evts[i].code) = code
    THEN (CHOOSE i \in 1..Len(evts) :
              norm(evts[i].code) = code /\ \A j \in 1..(i - 1) : norm(evts[j].code) # code) - 1
    ELSE -1

\* an event that is not in the list sorts ahead of one that is
compareEventsUnlistedFirst(a, b, evts) ==
    LET codeA == norm(a.eventCode)
        codeB == norm(b.eventCode)
        evtIdxA == findEventIndex(evts, codeA)
        evtIdxB == findEventIndex(evts, codeB)
    IN  IF evtIdxA # -1 /\ evtIdxB # -1
        THEN (IF evtIdxA # evtIdxB THEN evtIdxA - evtIdxB ELSE 0)
        ELSE IF evtIdxA # -1 THEN 1
        ELSE IF evtIdxB # -1 THEN -1
        ELSE IF codeA # codeB THEN localeCompare(codeA, codeB)
        ELSE 0

\* the Event Sort part of the comparator; 0 when it does not decide
compareEvents(a, b, evts) ==
    LET codeA == norm(a.eventCode)
        codeB == norm(b.eventCode)
        evtIdxA == findEventIndex(evts, codeA)
        evtIdxB == findEventIndex(evts, codeB)
    IN  IF evtIdxA # -1 /\ evtIdxB # -1
        THEN (IF evtIdxA # evtIdxB THEN evtIdxA - evtIdxB ELSE 0)
        ELSE IF evtIdxA # -1 THEN -1
        ELSE IF evtIdxB # -1 THEN 1
        ELSE IF codeA # codeB THEN localeCompare(codeA, codeB)
        ELSE 0

\* the sentinel sorts first
compareEntryCodesSentinelFirst(entryA, entryB) ==
    IF entryA # entryB
    THEN IF entryA # NoEntryCode /\ entryB # NoEntryCode THEN localeCompare(entryA, entryB)
         ELSE IF entryA = NoEntryCode THEN -1
         ELSE 1
    ELSE 0

\* the Entry Code Sort part of the comparator
compareEntryCodes(entryA, entryB) ==
    IF entryA # entryB
    THEN IF entryA # NoEntryCode /\ entryB # NoEntryCode THEN localeCompare(entryA, entryB)
         ELSE IF entryA = NoEntryCode THEN 1
         ELSE -1
    ELSE 0

\* sortKeys.get(id) || '-'
sortKeyOf(sortKeys, id) ==
    IF id \in DOMAIN sortKeys /\ sortKeys[id] # <<>> THEN sortKeys[id] ELSE NoEntryCode

compareParts(a, b, evts, sortKeys) ==
    LET byEvent == compareEvents(a, b, evts)
    IN  IF byEvent # 0 THEN byEvent
        ELSE compareEntryCodes(sortKeyOf(sortKeys, a.id), sortKeyOf(sortKeys, b.id))

\* Array.prototype.sort is stable: x goes behind every element that does not
\* compare greater than it.
RECURSIVE insertSorted(_, _, _, _)
insertSorted(sorted, x, evts, sortKeys) ==
    IF sorted = <<>> THEN <<x>>
    ELSE IF compareParts(sorted[Len(sorted)], x, evts, sortKeys) > 0
         THEN insertSorted(SubSeq(sorted, 1, Len(sorted) - 1), x, evts, sortKeys)
                  \o <<sorted[Len(sorted)]>>
         ELSE sorted \o <<x>>

RECURSIVE stableSort(_, _, _)
stableSort(list, evts, sortKeys) ==
    IF list = <<>> THEN <<>>
    ELSE insertSorted(stableSort(SubSeq(list, 1, Len(list) - 1), evts, sortKeys),
                      list[Len(list)], evts, sortKeys)

\* 2. Sort Logic
sortedParts(parts, evts, entryCodePrefixes, opts) ==
    LET selected == partsToSchedule(parts, opts)
        ids == {selected[i].id : i \in 1..Len(selected)}
        sortKeys == [id \in ids |->
                        LET last == CHOOSE i \in 1..Len(selected) :
                                        /\ selected[i].id = id
                                        /\ \A j \in (i + 1)..Len(selected) : selected[j].id # id
                        IN  getSortableEntryCode(selected[last], parts, entryCodePrefixes)]
    IN  stableSort(selected, evts, sortKeys)

\* sortedParts.filter(gp => gp.groupId === p.groupId)
groupParts(sorted, p) ==
    filterSeq(sorted, {gp \in SeqRange(sorted) : gp.groupId = p.groupId})

\* every participant an entry of its own
RECURSIVE buildEntriesUngrouped(_, _, _)
buildEntriesUngrouped(sorted, i, processedGroups) ==
    IF i > Len(sorted) THEN <<>>
    ELSE <<[id |-> sorted[i].id, type |-> "single", participants |-> <<sorted[i]>>]>>
         \o buildEntriesUngrouped(sorted, i + 1, processedGroups)

\* 3. Grouping for Station Assignment
RECURSIVE buildEntries(_, _, _)
buildEntries(sorted, i, processedGroups) ==
    IF i > Len(sorted) THEN <<>>
    ELSE LET p == sorted[i]
         IN  IF p.groupId # ""
             THEN IF p.groupId \in processedGroups
                  THEN buildEntries(sorted, i + 1, processedGroups)
                  ELSE <<[id |-> p.groupId, type |-> "group",
                          participants |-> groupParts(sorted, p)]>>
                       \o buildEntries(sorted, i + 1, processedGroups \cup {p.groupId})
             ELSE <<[id |-> p.id, type |-> "single", participants |-> <<p>>]>>
                  \o buildEntries(sorted, i + 1, processedGroups)

DefaultStartTime == <<"0", "9", ":", "0", "0">>

\* without a target event the start time is that of the GLOBAL configuration
initialPassGlobalStart(entries, configs, opts) ==
    LET effectiveConfigEvent ==
            IF Truthy(opts.targetEventCode) THEN Val(opts.targetEventCode) ELSE GLOBAL
        initialConfig == getRundownConfig(configs, effectiveConfigEvent)
    IN  [currentHeat |-> IF IsSet(opts.startHeatNumber) /\ Val(opts.startHeatNumber) # 0
                         THEN Val(opts.startHeatNumber) ELSE 1,
         currentStation |-> 1,
         lastEventCode |-> <<>>,
         currentHeatStartTime |->
             IF Truthy(opts.initialStartTime) THEN Val(opts.initialStartTime)
             ELSE IF initialConfig.startTime # <<>> THEN initialConfig.startTime
             ELSE DefaultStartTime,
         results |-> <<>>]

\* the pass starts at heat 1 whatever options.startHeatNumber says
initialPassFromOne(entries, configs, opts) ==
    LET firstEventCode == IF entries # <<>> THEN entries[1].participants[1].eventCode ELSE <<>>
        effectiveConfigEvent ==
            IF Truthy(opts.targetEventCode) THEN Val(opts.targetEventCode)
            ELSE IF firstEventCode # <<>> THEN firstEventCode
            ELSE GLOBAL
        initialConfig == getRundownConfig(configs, effectiveConfigEvent)
    IN  [currentHeat |-> 1,
         currentStation |-> 1,
         lastEventCode |-> <<>>,
         currentHeatStartTime |->
             IF Truthy(opts.initialStartTime) THEN Val(opts.initialStartTime)
             ELSE IF initialConfig.startTime # <<>> THEN initialConfig.startTime
             ELSE DefaultStartTime,
         results |-> <<>>]

\* the state of the assignment pass before the first entry
initialPass(entries, configs, opts) ==
    LET firstEventCode == IF entries # <<>> THEN entries[1].participants[1].eventCode ELSE <<>>
        effectiveConfigEvent ==
            IF Truthy(opts.targetEventCode) THEN Val(opts.targetEventCode)
            ELSE IF firstEventCode # <<>> THEN firstEventCode
            ELSE GLOBAL
        initialConfig == getRundownConfig(configs, effectiveConfigEvent)
    IN  [currentHeat |-> IF IsSet(opts.startHeatNumber) /\ Val(opts.startHeatNumber) # 0
                         THEN Val(opts.startHeatNumber) ELSE 1,
         currentStation |-> 1,
         lastEventCode |-> <<>>,
         currentHeatStartTime |->
             IF Truthy(opts.initialStartTime) THEN Val(opts.initialStartTime)
             ELSE IF initialConfig.startTime # <<>> THEN initialConfig.startTime
             ELSE DefaultStartTime,
         results |-> <<>>]

\* the forced new heat does not go back to station 1
eventSwitchKeepsStation(st, entryEvent, configs) ==
    IF st.lastEventCode # <<>> /\ entryEvent # st.lastEventCode /\ st.currentStation > 1
    THEN [st EXCEPT !.currentHeat = @ + 1,
                    !.currentHeatStartTime =
                        addMinutes(@, getRundownConfig(configs, st.lastEventCode).heatDuration)]
    ELSE st

\* Event Switch Logic (Force new Heat)
eventSwitch(st, entryEvent, configs) ==
    IF st.lastEventCode # <<>> /\ entryEvent # st.lastEventCode /\ st.currentStation > 1
    THEN [st EXCEPT !.currentHeat = @ + 1,
                    !.currentStation = 1,
                    !.currentHeatStartTime =
                        addMinutes(@, getRundownConfig(configs, st.lastEventCode).heatDuration)]
    ELSE st

\* a heat takes one station more than configured
stationCapacityOneMore(st, entryConfig) ==
    IF st.currentStation > entryConfig.stationCount + 1
    THEN [st EXCEPT !.currentHeat = @ + 1,
                    !.currentStation = 1,
                    !.currentHeatStartTime = addMinutes(@, entryConfig.heatDuration)]
    ELSE st

\* the heat is closed one station early
stationCapacityAtCount(st, entryConfig) ==
    IF st.currentStation >= entryConfig.stationCount
    THEN [st EXCEPT !.currentHeat = @ + 1,
                    !.currentStation = 1,
                    !.currentHeatStartTime = addMinutes(@, entryConfig.heatDuration)]
    ELSE st

\* a full heat advances the time by the default duration, not the event's
stationCapacityDefaultDuration(st, entryConfig) ==
    IF st.currentStation > entryConfig.stationCount
    THEN [st EXCEPT !.currentHeat = @ + 1,
                    !.currentStation = 1,
                    !.currentHeatStartTime = addMinutes(@, 2)]
    ELSE st

\* Station Capacity Logic
stationCapacity(st, entryConfig) ==
    IF st.currentStation > entryConfig.stationCount
    THEN [st EXCEPT !.currentHeat = @ + 1,
                    !.currentStation = 1,
                    !.currentHeatStartTime = addMinutes(@, entryConfig.heatDuration)]
    ELSE st

\* Create Result Updates
entryResults(entry, st) ==
    [i \in 1..Len(entry.participants) |->
        [participantId |-> entry.participants[i].id,
         heat |-> st.currentHeat,
         station |-> st.currentStation,
         scheduleTime |-> st.currentHeatStartTime]]

\* the station is not advanced after an entry is placed
assignEntryKeepsStation(st, entry, configs) ==
    LET entryEvent == norm(entry.participants[1].eventCode)
        entryConfig == getRundownConfig(configs, entryEvent)
        switched == [eventSwitch(st, entryEvent, configs) EXCEPT !.lastEventCode = entryEvent]
        placed == stationCapacity(switched, entryConfig)
    IN  [placed EXCEPT !.results = @ \o entryResults(entry, placed)]

\* every member of the entry takes a station of its own
assignEntryStationPerMember(st, entry, configs) ==
    LET entryEvent == norm(entry.participants[1].eventCode)
        entryConfig == getRundownConfig(configs, entryEvent)
        switched == [eventSwitch(st, entryEvent, configs) EXCEPT !.lastEventCode = entryEvent]
        placed == stationCapacity(switched, entryConfig)
    IN  [placed EXCEPT !.results = @ \o entryResults(entry, placed),
                       !.currentStation = @ + Len(entry.participants)]

\* the body of entries.forEach
assignEntry(st, entry, configs) ==
    LET entryEvent == norm(entry.participants[1].eventCode)
        entryConfig == getRundownConfig(configs, entryEvent)
        switched == [eventSwitch(st, entryEvent, configs) EXCEPT !.lastEventCode = entryEvent]
        placed == stationCapacity(switched, entryConfig)
    IN  [placed EXCEPT !.results = @ \o entryResults(entry, placed),
                       !.currentStation = @ + 1]

\* 4. Assign Heats and Stations
RECURSIVE assignPass(_, _, _, _)
assignPass(st, entries, i, configs) ==
    IF i > Len(entries) THEN st
    ELSE assignPass(assignEntry(st, entries[i], configs), entries, i + 1, configs)

entriesOf(parts, evts, entryCodePrefixes, opts) ==
    buildEntries(sortedParts(parts, evts, entryCodePrefixes, opts), 1, {})

scheduleParticipants(parts, evts, entryCodePrefixes, configs, opts) ==
    IF partsToSchedule(parts, opts) = <<>> THEN <<>>
    ELSE LET entries == entriesOf(parts, evts, entryCodePrefixes, opts)
         IN  assignPass(initialPass(entries, configs, opts), entries, 1, configs).results

----------------------------------------------------------------------------
(* Input domains *)

EvEmpty == <<>>
EvA == <<"A">>
EvB == <<"B">>
EvASpace == <<"A", " ">>

Ids == <<"p1", "p2", "p3", "p4", "p5">>

\* an unassigned participant with the i-th id
Participant(i, ev, div, gid) ==
    [id |-> Ids[i], eventCode |-> ev, division |-> div, groupId |-> gid,
     heat |-> None, station |-> None, scheduleTime |-> None]

Kind(ev, div, gid) == [eventCode |-> ev, division |-> div, groupId |-> gid]

\* the participants a roster is made of: three event codes (one empty), two
\* divisions, ungrouped participants and members of the group G1 (two members
\* of one event, or of two events)
Kinds ==
    {Kind(EvA, "D1", ""), Kind(EvA, "D2", ""), Kind(EvB, "D1", ""), Kind(EvB, "D2", ""),
     Kind(EvEmpty, "D1", ""), Kind(EvA, "D1", "G1"), Kind(EvB, "D1", "G1")}

RECURSIVE RostersOver(_, _)
RostersOver(kinds, n) ==
    IF n = 0 THEN {<<>>}
    ELSE {r \o <<Participant(n, k.eventCode, k.division, k.groupId)>> :
              r \in RostersOver(kinds, n - 1), k \in kinds}

Rosters == UNION {RostersOver(Kinds, n) : n \in 0..MaxParts}

EventLists == {<<>>, <<[code |-> EvB], [code |-> EvASpace]>>}

PrefixC == <<"C">>
PrefixA == <<"A">>

\* Event A: both divisions have a prefix and D2's collates first.  Event B:
\* D1 has a prefix, D2 has no key.  The empty event code: D1 has a prefix,
\* D2 has the empty prefix.
PrefixMap ==
    [k \in {<<EvA, "D1">>, <<EvA, "D2">>, <<EvB, "D1">>, <<EvEmpty, "D1">>, <<EvEmpty, "D2">>} |->
        IF k[2] = "D1" THEN PrefixC
        ELSE IF k[1] = EvA THEN PrefixA
        ELSE <<>>]

PrefixMaps == {PrefixMap}

Time0900 == <<"0", "9", ":", "0", "0">>
Time2350 == <<"2", "3", ":", "5", "0">>
Time2359 == <<"2", "3", ":", "5", "9">>

RundownConfig(start, duration, stations) ==
    [startTime |-> start, heatDuration |-> duration, stationCount |-> stations]

\* one configuration for every event, one station
ConfigsOneStation == [k \in {GLOBAL} |-> RundownConfig(Time0900, 2, 1)]

\* event A overrides GLOBAL: fewer stations, another duration and start
ConfigsPerEvent ==
    [k \in {GLOBAL, EvA} |->
        IF k = EvA THEN RundownConfig(Time2350, 15, 1) ELSE RundownConfig(Time0900, 2, 2)]

ConfigTables == {ConfigsOneStation, ConfigsPerEvent}

StartHeat == 5

\* the clocks do not change, or they go forward at the coming midnight
\* (00:00 to 00:59 of the next day is skipped)
LocalDays == {NoClockChange, SkippedHour(1, 0)}

ScheduleOptions(target, start, heatNo) ==
    [targetEventCode |-> target, initialStartTime |-> start, startHeatNumber |-> heatNo]

NoOptions == ScheduleOptions(None, None, None)

OptionSets ==
    {ScheduleOptions(t, s, h) :
        t \in {None, Some(EvA), Some(EvEmpty)},
        s \in {None, Some(Time2359)},
        h \in {None, Some(StartHeat)}}

----------------------------------------------------------------------------
(* The scheduler called on its own *)

SchedInit ==
    /\ participants \in Rosters
    /\ events \in EventLists
    /\ entryCodes \in PrefixMaps
    /\ eventRundownConfigs \in ConfigTables
    /\ history = <<>>
    /\ options = NoOptions
    /\ results = <<>>
    /\ caller = "none"
    /\ swapCount = 0
    /\ localDay \in LocalDays

\* the roster array is the one that is sorted
participantsSortedInPlace(parts, evts, entryCodePrefixes, opts) ==
    IF Truthy(opts.targetEventCode) THEN parts
    ELSE sortedParts(parts, evts, entryCodePrefixes, opts)

\* The roster array once the call has returned: partsToSchedule is a new
\* array (filter or spread), the sort is on a copy of it, and no field of a
\* participant is assigned.
participantsAfterCall(parts, evts, entryCodePrefixes, opts) == parts

Schedule ==
    \E opts \in OptionSets :
        /\ caller = "none"
        /\ options' = opts
        /\ results' = scheduleParticipants(participants, events, entryCodes,
                                           eventRundownConfigs, opts)
        /\ participants' = participantsAfterCall(participants, events, entryCodes, opts)
        /\ caller' = "scheduleParticipants"
        /\ UNCHANGED <<events, entryCodes, eventRundownConfigs, history,
                       swapCount, localDay>>

SchedNext == Schedule

SchedSpec == SchedInit /\ [][SchedNext]_vars

Scheduled == caller = "scheduleParticipants"

\* The scheduler called on its own, and again with the same arguments after
\* the local calendar of `new Date()` has moved on: the record of the call
\* is kept to compare the two calls.
DayPasses ==
    /\ caller = "scheduleParticipants"
    /\ localDay' \in LocalDays \ {localDay}
    /\ caller' = "dayPasses"
    /\ UNCHANGED <<participants, events, entryCodes, eventRundownConfigs, history,
                   options, results, swapCount>>

\* the second call, with the arguments of the first
ScheduleAgain ==
    /\ caller = "dayPasses"
    /\ results' = scheduleParticipants(participants, events, entryCodes,
                                       eventRundownConfigs, options)
    /\ caller' = "scheduleParticipants again"
    /\ UNCHANGED <<participants, events, entryCodes, eventRundownConfigs, history,
                   options, swapCount, localDay>>

ClockNext == Schedule \/ DayPasses \/ ScheduleAgain

ClockSpec == SchedInit /\ [][ClockNext]_vars

----------------------------------------------------------------------------
(* The participant store *)

\* participants.value.find(p => p.id === id): 1-based position, 0 when absent
findById(parts, id) ==
    IF \E i \in 1..Len(parts) : parts[i].id = id
    THEN CHOOSE i \in 1..Len(parts) : parts[i].id = id /\ \A j \in 1..(i - 1) : parts[j].id # id
    ELSE 0

\* every assignment is cleared, whatever the event
clearRundownEverything(parts, eventCode) ==
    [i \in 1..Len(parts) |->
        [parts[i] EXCEPT !.heat = None, !.station = None, !.scheduleTime = None]]

\* clearRundown(eventCode?) on a participant list
clearRundown(parts, eventCode) ==
    [i \in 1..Len(parts) |->
        IF eventCode = <<>> \/ parts[i].eventCode = eventCode
        THEN [parts[i] EXCEPT !.heat = None, !.station = None, !.scheduleTime = None]
        ELSE parts[i]]

\* p.heat || 0
heatOrZero(p) == IF IsSet(p.heat) THEN Val(p.heat) ELSE 0

\* [...otherParts].sort((a, b) => (a.heat || 0) - (b.heat || 0)), a stable sort
RECURSIVE insertByHeat(_, _)
insertByHeat(sorted, x) ==
    IF sorted = <<>> THEN <<x>>
    ELSE IF heatOrZero(sorted[Len(sorted)]) - heatOrZero(x) > 0
         THEN insertByHeat(SubSeq(sorted, 1, Len(sorted) - 1), x) \o <<sorted[Len(sorted)]>>
         ELSE sorted \o <<x>>

RECURSIVE sortByHeat(_)
sortByHeat(list) ==
    IF list = <<>> THEN <<>>
    ELSE insertByHeat(sortByHeat(SubSeq(list, 1, Len(list) - 1)), list[Len(list)])

\* Math.max(...list.map(p => p.heat || 0))
maxHeat(list) ==
    CHOOSE h \in {heatOrZero(list[i]) : i \in 1..Len(list)} :
        \A i \in 1..Len(list) : heatOrZero(list[i]) <= h

\* the target event starts in the highest heat of the other events
startParametersInLastHeat(parts, configs, targetEventCode) ==
    LET otherParts == filterSeq(parts, {p \in SeqRange(parts) :
                                            p.eventCode # targetEventCode /\ IsSet(p.heat)})
        sortedByHeat == sortByHeat(otherParts)
        lastP == sortedByHeat[Len(sortedByHeat)]
    IN  IF targetEventCode # <<>> /\ otherParts # <<>>
        THEN ScheduleOptions(Some(targetEventCode),
                 IF IsSet(lastP.scheduleTime) /\ Val(lastP.scheduleTime) # <<>>
                 THEN Some(addMinutes(Val(lastP.scheduleTime),
                                      getRundownConfig(configs, lastP.eventCode).heatDuration))
                 ELSE None,
                 Some(maxHeat(otherParts)))
        ELSE ScheduleOptions(Some(targetEventCode), None, Some(1))

\* the participants of the target event count among the scheduled heats too
startParametersCountingOwn(parts, configs, targetEventCode) ==
    LET otherParts == filterSeq(parts, {p \in SeqRange(parts) : IsSet(p.heat)})
        sortedByHeat == sortByHeat(otherParts)
        lastP == sortedByHeat[Len(sortedByHeat)]
    IN  IF targetEventCode # <<>> /\ otherParts # <<>>
        THEN ScheduleOptions(Some(targetEventCode),
                 IF IsSet(lastP.scheduleTime) /\ Val(lastP.scheduleTime) # <<>>
                 THEN Some(addMinutes(Val(lastP.scheduleTime),
                                      getRundownConfig(configs, lastP.eventCode).heatDuration))
                 ELSE None,
                 Some(maxHeat(otherParts) + 1))
        ELSE ScheduleOptions(Some(targetEventCode), None, Some(1))

\* "Append" mode logic: the options generateRundown hands to the scheduler
startParameters(parts, configs, targetEventCode) ==
    LET otherParts == filterSeq(parts, {p \in SeqRange(parts) :
                                            p.eventCode # targetEventCode /\ IsSet(p.heat)})
        sortedByHeat == sortByHeat(otherParts)
        lastP == sortedByHeat[Len(sortedByHeat)]
    IN  IF targetEventCode # <<>> /\ otherParts # <<>>
        THEN ScheduleOptions(Some(targetEventCode),
                 IF IsSet(lastP.scheduleTime) /\ Val(lastP.scheduleTime) # <<>>
                 THEN Some(addMinutes(Val(lastP.scheduleTime),
                                      getRundownConfig(configs, lastP.eventCode).heatDuration))
                 ELSE None,
                 Some(maxHeat(otherParts) + 1))
        ELSE ScheduleOptions(Some(targetEventCode), None, Some(1))

\* Apply new values: updates.forEach(u => ...)
RECURSIVE applyUpdates(_, _, _)
applyUpdates(parts, updates, i) ==
    IF i > Len(updates) THEN parts
    ELSE LET u == updates[i]
             k == findById(parts, u.participantId)
         IN  applyUpdates(
                 IF k = 0 THEN parts
                 ELSE [parts EXCEPT ![k].heat = Some(u.heat),
                                    ![k].station = Some(u.station),
                                    ![k].scheduleTime = Some(u.scheduleTime)],
                 updates, i + 1)

\* heat and station are swapped, the time stays
swapFieldsWithoutTime(parts, id1, id2) ==
    LET i1 == findById(parts, id1)
        i2 == findById(parts, id2)
    IN  IF i1 = 0 \/ i2 = 0 THEN parts
        ELSE [parts EXCEPT ![i1].heat = parts[i2].heat,
                           ![i1].station = parts[i2].station,
                           ![i2].heat = parts[i1].heat,
                           ![i2].station = parts[i1].station]

\* the swap of the scheduling info of two participants
swapFields(parts, id1, id2) ==
    LET i1 == findById(parts, id1)
        i2 == findById(parts, id2)
    IN  IF i1 = 0 \/ i2 = 0 THEN parts
        ELSE [parts EXCEPT ![i1].heat = parts[i2].heat,
                           ![i1].station = parts[i2].station,
                           ![i1].scheduleTime = parts[i2].scheduleTime,
                           ![i2].heat = parts[i1].heat,
                           ![i2].station = parts[i1].station,
                           ![i2].scheduleTime = parts[i1].scheduleTime]

\* the event selected in the view: '' (all events) or an event code
Targets == {EvEmpty, EvA, EvB}

StoreKinds ==
    {Kind(EvA, "D1", ""), Kind(EvB, "D1", ""), Kind(EvEmpty, "D1", ""),
     Kind(EvA, "D1", "G1"), Kind(EvB, "D1", "G1")}

StoreRosters == UNION {RostersOver(StoreKinds, n) : n \in 0..MaxStoreParts}

StoreEventList == <<[code |-> EvB], [code |-> EvASpace]>>

\* an event list that leaves event B and the empty event code unlisted
StoreEventListShort == <<[code |-> EvASpace]>>

Init ==
    /\ participants \in StoreRosters
    /\ events = StoreEventListShort
    /\ entryCodes = PrefixMap
    /\ eventRundownConfigs \in ConfigTables
    /\ history = <<>>
    /\ options = NoOptions
    /\ results = <<>>
    /\ caller = "none"
    /\ swapCount = 0
    /\ localDay \in LocalDays

\* generateRundown(targetEventCode?) on a participant list: the list it leaves
generateRundown(parts, evts, entryCodePrefixes, configs, targetEventCode) ==
    applyUpdates(clearRundown(parts, targetEventCode),
                 scheduleParticipants(parts, evts, entryCodePrefixes, configs,
                                      startParameters(parts, configs, targetEventCode)),
                 1)

HeatsWithin(updates, limit) == \A i \in 1..Len(updates) : updates[i].heat <= limit

GenerateRundown ==
    \E targetEventCode \in Targets :
        LET opts == startParameters(participants, eventRundownConfigs, targetEventCode)
            updates == scheduleParticipants(participants, events, entryCodes,
                                            eventRundownConfigs, opts)
        IN  /\ HeatsWithin(updates, MaxHeat)
            /\ options' = opts
            /\ results' = updates
            /\ participants' = generateRundown(participants, events, entryCodes,
                                               eventRundownConfigs, targetEventCode)
            /\ caller' = "generateRundown"
            /\ UNCHANGED <<events, entryCodes, eventRundownConfigs, history, swapCount, localDay>>

\* a step that does not call the scheduler
NoCall == options' = NoOptions /\ results' = <<>> /\ caller' = "none"

ClearRundown ==
    \E eventCode \in Targets :
        /\ participants' = clearRundown(participants, eventCode)
        /\ NoCall
        /\ UNCHANGED <<events, entryCodes, eventRundownConfigs, history, swapCount, localDay>>

SwapParticipants ==
    \E i1 \in 1..Len(participants), i2 \in 1..Len(participants) :
      LET id1 == participants[i1].id
          id2 == participants[i2].id
      IN
        /\ i1 < i2
        /\ \A i \in {i1, i2} : IsSet(participants[i].heat) /\ IsSet(participants[i].station)
        /\ swapCount < MaxSwaps
        /\ swapCount' = swapCount + 1
        /\ history' = <<[id1 |-> id1, id2 |-> id2]>>
        /\ participants' = swapFields(participants, id1, id2)
        /\ NoCall
        /\ UNCHANGED <<events, entryCodes, eventRundownConfigs, localDay>>

Undo ==
    /\ history # <<>>
    /\ history' = SubSeq(history, 1, Len(history) - 1)
    /\ participants' = swapFields(participants, history[Len(history)].id1,
                                  history[Len(history)].id2)
    /\ NoCall
    /\ UNCHANGED <<events, entryCodes, eventRundownConfigs, swapCount, localDay>>

Next == GenerateRundown \/ ClearRundown

Spec == Init /\ [][Next]_vars

\* the store with the swap editing of the rundown view, which shows the
\* scheduled participants as rows; on a local day without a change of the clocks
\* ungrouped participants of one event and members of a group of another
SwapKinds == {Kind(EvB, "D1", ""), Kind(EvA, "D1", "G1")}

SwapRosters == UNION {RostersOver(SwapKinds, n) : n \in 0..MaxStoreParts}

SwapInit ==
    /\ participants \in SwapRosters
    /\ events = StoreEventList
    /\ entryCodes = PrefixMap
    /\ eventRundownConfigs = ConfigsPerEvent
    /\ history = <<>>
    /\ options = NoOptions
    /\ results = <<>>
    /\ caller = "none"
    /\ swapCount = 0
    /\ localDay = NoClockChange

SwapNext == GenerateRundown \/ ClearRundown \/ SwapParticipants \/ Undo

SwapSpec == SwapInit /\ [][SwapNext]_vars

----------------------------------------------------------------------------
(* Reading the arguments and the result of the last scheduleParticipants call *)

PartIndexes == 1..Len(participants)
ResultIndexes == 1..Len(results)

PartById(id) == participants[findById(participants, id)]

\* the participant a result is about
ResultPart(i) == PartById(results[i].participantId)

\* the positions of the results about participant p
ResultsFor(p) == {i \in ResultIndexes : results[i].participantId = p.id}

\* the result about participant p, when there is one
ResultOf(p) == results[CHOOSE i \in ResultIndexes : results[i].participantId = p.id]

TargetSet == Truthy(options.targetEventCode)

\* p is among the participants the call operates on
Selected(p) == TargetSet => p.eventCode = Val(options.targetEventCode)

SingleEventGroups ==
    \A i, j \in PartIndexes :
        (participants[i].groupId # "" /\ participants[i].groupId = participants[j].groupId)
            => participants[i].eventCode = participants[j].eventCode

SameGroup(p, q) == p.groupId # "" /\ p.groupId = q.groupId

\* the entries of the call in assignment order
CallEntries == entriesOf(participants, events, entryCodes, options)

\* the event an entry is scheduled under
EntryEvent(entry) == norm(entry.participants[1].eventCode)

ConfigOf(eventCode) == getRundownConfig(eventRundownConfigs, eventCode)

----------------------------------------------------------------------------
(* Properties of scheduleParticipants *)

\* C1: Event partition per heat. In the list scheduleParticipants returns, any
\* two results with the same heat number are about participants with the same
\* event code, for every roster whose groups have members of a single event
\* and every event code, the empty one included.
C1_EventPartitionPerHeat ==
    (Scheduled /\ SingleEventGroups) =>
        \A i, j \in ResultIndexes :
            results[i].heat = results[j].heat
                => ResultPart(i).eventCode = ResultPart(j).eventCode

\* C2: Group atomicity. Any two results whose participants share a non-empty
\* group id have equal heat, station and scheduleTime, wherever the members
\* stand in the roster.
C2_GroupAtomicity ==
    Scheduled =>
        \A i, j \in ResultIndexes :
            SameGroup(ResultPart(i), ResultPart(j))
                => /\ results[i].heat = results[j].heat
                   /\ results[i].station = results[j].station
                   /\ results[i].scheduleTime = results[j].scheduleTime

\* a group whose two members are separated in the roster by an ungrouped
\* participant of the same event, all three scheduled
C2_Witness ==
    /\ Scheduled
    /\ \E i, j, k \in PartIndexes :
        /\ i < k /\ k < j
        /\ SameGroup(participants[i], participants[j])
        /\ participants[k].groupId = ""
        /\ participants[k].eventCode = participants[i].eventCode
        /\ ResultsFor(participants[i]) # {}
        /\ ResultsFor(participants[j]) # {}
        /\ ResultsFor(participants[k]) # {}
        /\ ResultOf(participants[k]).station # ResultOf(participants[i]).station

\* the slot of each entry: the result of its first member
SlotsOf(entries) == [k \in 1..Len(entries) |-> ResultOf(entries[k].participants[1])]

\* the event each entry is scheduled under
EventsOf(entries) == [k \in 1..Len(entries) |-> EntryEvent(entries[k])]

\* C3 as stated: every result has 1 <= station <= stationCount of the
\* configuration resolved for that participant's own event, for every roster.
C3_StationWithinOwnEventCount ==
    Scheduled =>
        \A i \in ResultIndexes :
            /\ 1 <= results[i].station
            /\ results[i].station <= ConfigOf(ResultPart(i).eventCode).stationCount

\* C3 (amended): every result has 1 <= station <= stationCount of the
\* configuration resolved for the event of the first member of the
\* participant's entry, which is the participant's own event when it is
\* ungrouped or its group has members of a single event.
C3_StationBounds ==
    Scheduled =>
        LET entries == CallEntries
        IN  \A k \in 1..Len(entries) :
                LET limit == ConfigOf(EntryEvent(entries[k])).stationCount
                IN  \A m \in 1..Len(entries[k].participants) :
                        LET r == ResultOf(entries[k].participants[m])
                        IN  1 <= r.station /\ r.station <= limit

\* two consecutive entries of events with different station counts, the
\* earlier one on the last station of its heat
C3_Witness ==
    /\ Scheduled
    /\ LET entries == CallEntries
           slot == SlotsOf(entries)
           event == EventsOf(entries)
       IN  \E k \in 1..(Len(entries) - 1) :
               /\ event[k] # event[k + 1]
               /\ ConfigOf(event[k]).stationCount > ConfigOf(event[k + 1]).stationCount
               /\ slot[k].station = ConfigOf(event[k]).stationCount

\* C4: Completeness. With unique ids, the list holds exactly one result for
\* every selected participant (event code equal to options.targetEventCode
\* when it is set, every participant otherwise) and none for any other.
C4_Completeness ==
    Scheduled =>
        /\ \A i \in PartIndexes :
               Cardinality(ResultsFor(participants[i]))
                   = IF Selected(participants[i]) THEN 1 ELSE 0
        /\ \A i \in ResultIndexes :
               \E k \in PartIndexes : participants[k].id = results[i].participantId

\* a target that splits the roster and a group: one member selected, one not
C4_Witness ==
    /\ Scheduled
    /\ TargetSet
    /\ results # <<>>
    /\ \E i, j \in PartIndexes :
        /\ SameGroup(participants[i], participants[j])
        /\ Selected(participants[i])
        /\ ~Selected(participants[j])

\* options.startHeatNumber || 1
StartingHeat ==
    IF IsSet(options.startHeatNumber) /\ Val(options.startHeatNumber) # 0
    THEN Val(options.startHeatNumber) ELSE 1

\* C5: Heat monotonicity. Heat numbers do not decrease from the first result
\* to the last, and no result has a heat below the starting heat number.
C5_HeatMonotonicity ==
    Scheduled =>
        /\ \A i, j \in ResultIndexes : i < j => results[i].heat <= results[j].heat
        /\ \A i \in ResultIndexes : results[i].heat >= StartingHeat

\* a call with a starting heat number that fills more than one heat
C5_Witness ==
    /\ Scheduled
    /\ IsSet(options.startHeatNumber)
    /\ \E i, j \in ResultIndexes : results[i].heat < results[j].heat

\* C6: Time progression within an event. When heats h and h+1 both hold
\* entries of the same event, scheduleTime of heat h+1 is addMinutes of
\* scheduleTime of heat h and the heatDuration of that event's configuration.
C6_TimeProgression ==
    Scheduled =>
        LET entries == CallEntries
            slot == SlotsOf(entries)
            event == EventsOf(entries)
        IN  \A k1, k2 \in 1..Len(entries) :
                (event[k1] = event[k2] /\ slot[k2].heat = slot[k1].heat + 1)
                    => slot[k2].scheduleTime
                           = addMinutes(slot[k1].scheduleTime, ConfigOf(event[k1]).heatDuration)

\* an event with its own heat duration running over two consecutive heats,
\* behind another event
C6_Witness ==
    /\ Scheduled
    /\ LET entries == CallEntries
           slot == SlotsOf(entries)
           event == EventsOf(entries)
       IN  \E k0, k1, k2 \in 1..Len(entries) :
               /\ event[k0] # event[k1]
               /\ slot[k0].heat < slot[k1].heat
               /\ event[k1] = event[k2]
               /\ slot[k2].heat = slot[k1].heat + 1
               /\ ConfigOf(event[k1]).heatDuration # ConfigOf(event[k0]).heatDuration

\* C7: Forced heat break at every event change. Whenever two consecutive
\* entries in assignment order have different event codes, the later entry
\* is at station 1 of the heat numbered one more than the earlier entry's.
C7_ForcedBreakAtEventChange ==
    Scheduled =>
        LET entries == CallEntries
            slot == SlotsOf(entries)
        IN  \A k \in 1..(Len(entries) - 1) :
                entries[k].participants[1].eventCode # entries[k + 1].participants[1].eventCode
                    => /\ slot[k + 1].station = 1
                       /\ slot[k + 1].heat = slot[k].heat + 1

\* the position of the result about participant p
PositionOf(p) == CHOOSE i \in ResultIndexes : results[i].participantId = p.id

InEventList(code) == \E i \in 1..Len(events) : norm(events[i].code) = code

EventListIndex(code) ==
    CHOOSE i \in 1..Len(events) :
        norm(events[i].code) = code /\ \A j \in 1..(i - 1) : norm(events[j].code) # code

\* a comes before b in dictionary order
LexLess(a, b) ==
    \E k \in 1..(Len(b)) :
        /\ k <= Len(a) + 1
        /\ \A j \in 1..(k - 1) : a[j] = b[j]
        /\ k = Len(a) + 1 \/ CollRank(a[k]) < CollRank(b[k])

\* the event of code a is scheduled ahead of the event of code b
EventAhead(a, b) ==
    \/ InEventList(a) /\ InEventList(b) /\ EventListIndex(a) < EventListIndex(b)
    \/ InEventList(a) /\ ~InEventList(b)
    \/ ~InEventList(a) /\ ~InEventList(b) /\ LexLess(a, b)

\* C8: Cross-event order. For selected participants p and q with different
\* trimmed event codes (groups having members of a single event), p comes
\* before q in the returned list when both codes are in the event list and
\* p's has the lower index, or only p's code is in the list, or neither is
\* and p's trimmed code is the smaller one in dictionary order; and no
\* selected participant is dropped, whether its event is in the list or not.
C8_CrossEventOrder ==
    (Scheduled /\ SingleEventGroups) =>
        /\ \A i \in PartIndexes :
               Selected(participants[i]) => ResultsFor(participants[i]) # {}
        /\ \A i, j \in PartIndexes :
               (/\ Selected(participants[i])
                /\ Selected(participants[j])
                /\ norm(participants[i].eventCode) # norm(participants[j].eventCode)
                /\ EventAhead(norm(participants[i].eventCode), norm(participants[j].eventCode)))
                   => PositionOf(participants[i]) < PositionOf(participants[j])

\* a roster in the opposite order: an event that is not in the list, then the
\* second event of the list, then the first; the results are in event order
C8_Witness ==
    /\ Scheduled
    /\ SingleEventGroups
    /\ \E i, j, k \in PartIndexes :
        /\ i < j /\ j < k
        /\ ~InEventList(norm(participants[i].eventCode))
        /\ InEventList(norm(participants[j].eventCode))
        /\ InEventList(norm(participants[k].eventCode))
        /\ EventListIndex(norm(participants[k].eventCode))
               < EventListIndex(norm(participants[j].eventCode))
        /\ Len(results) = Len(participants)
        /\ PositionOf(participants[k]) < PositionOf(participants[j])
        /\ PositionOf(participants[j]) < PositionOf(participants[i])

HasPrefix(p) == prefixOf(entryCodes, p.eventCode, p.division) # <<>>

SlotBefore(r1, r2) ==
    r1.heat < r2.heat \/ (r1.heat = r2.heat /\ r1.station < r2.station)

\* C9: The sentinel sorts last within its event. Of two ungrouped selected
\* participants of the same event, one whose key has a non-empty prefix
\* comes before one whose key has none, in the list and in (heat, station);
\* two participants without a prefix keep their roster order.
C9_SentinelSortsLast ==
    Scheduled =>
        \A i, j \in PartIndexes :
            LET p == participants[i]
                q == participants[j]
            IN  (/\ i # j
                 /\ p.groupId = "" /\ q.groupId = ""
                 /\ Selected(p) /\ Selected(q)
                 /\ p.eventCode = q.eventCode)
                    => /\ (HasPrefix(p) /\ ~HasPrefix(q))
                           => /\ PositionOf(p) < PositionOf(q)
                              /\ SlotBefore(ResultOf(p), ResultOf(q))
                       /\ (~HasPrefix(p) /\ ~HasPrefix(q) /\ i < j)
                           => PositionOf(p) < PositionOf(q)

\* a participant without prefix stands in the roster before one of the same
\* event with a prefix and before another one without: the one with the
\* prefix is scheduled first, the two others in roster order
C9_Witness ==
    /\ Scheduled
    /\ \E i, j, k \in PartIndexes :
        /\ i < j /\ i < k /\ j # k
        /\ participants[i].groupId = "" /\ participants[j].groupId = ""
        /\ participants[k].groupId = ""
        /\ participants[i].eventCode = participants[j].eventCode
        /\ participants[i].eventCode = participants[k].eventCode
        /\ ~HasPrefix(participants[i]) /\ HasPrefix(participants[j])
        /\ ~HasPrefix(participants[k])
        /\ Len(results) = Len(participants)
        /\ PositionOf(participants[j]) < PositionOf(participants[i])
        /\ PositionOf(participants[i]) < PositionOf(participants[k])

----------------------------------------------------------------------------
(* Properties of the store *)

Generated == caller = "generateRundown"

\* participant p carries exactly the assignment of result r
Carries(p, r) ==
    /\ p.heat = Some(r.heat)
    /\ p.station = Some(r.station)
    /\ p.scheduleTime = Some(r.scheduleTime)

\* C10: Incremental regeneration does not disturb other events. A step
\* generateRundown(E) for a target event E leaves every participant whose
\* event code is not E as it was, and afterwards every participant of event
\* E carries exactly the assignment the scheduler returned for it.
C10_IncrementalFrame ==
    [][(caller' = "generateRundown" /\ Truthy(options'.targetEventCode)) =>
          LET E == Val(options'.targetEventCode)
          IN  /\ Len(participants') = Len(participants)
              /\ \A i \in PartIndexes :
                     IF participants[i].eventCode # E
                     THEN participants'[i] = participants[i]
                     ELSE /\ Cardinality({k \in 1..Len(results') :
                                  results'[k].participantId = participants[i].id}) = 1
                          /\ \A k \in 1..Len(results') :
                                 results'[k].participantId = participants[i].id
                                     => Carries(participants'[i], results'[k])
      ]_vars

\* event E was regenerated behind the scheduled heats of another event
C10_Witness ==
    /\ Generated
    /\ TargetSet
    /\ Val(options.startHeatNumber) > 1
    /\ \E i, j \in PartIndexes :
        /\ participants[i].eventCode = Val(options.targetEventCode)
        /\ participants[j].eventCode # Val(options.targetEventCode)
        /\ IsSet(participants[j].heat)
        /\ ResultsFor(participants[i]) # {}
        /\ Carries(participants[i], ResultOf(participants[i]))
        /\ Val(participants[i].heat) > Val(participants[j].heat)

\* the participants after generateRundown(targetEventCode) on the list parts
Regenerated(parts, targetEventCode) ==
    generateRundown(parts, events, entryCodes, eventRundownConfigs, targetEventCode)

\* C11: Idempotence of reschedule. After generateRundown(E), with roster and
\* configuration unchanged, a second generateRundown(E), directly or after
\* clearRundown(E), leaves every participant with the heat, station and
\* scheduleTime it has after the first run; E is a target event or, for the
\* full generateRundown(), no event.
C11_RescheduleIdempotent ==
    Generated =>
        LET E == Val(options.targetEventCode)
        IN  /\ Regenerated(participants, E) = participants
            /\ Regenerated(clearRundown(participants, E), E) = participants

\* a target event was generated behind the heats of another event, so that
\* the second run computes its start from the participants in the store
C11_Witness ==
    /\ Generated
    /\ TargetSet
    /\ Val(options.startHeatNumber) > 1
    /\ IsSet(options.initialStartTime)
    /\ \E i \in PartIndexes :
        /\ participants[i].eventCode = Val(options.targetEventCode)
        /\ IsSet(participants[i].heat)
        /\ Val(participants[i].heat) >= Val(options.startHeatNumber)

----------------------------------------------------------------------------
(* Properties of the scheduler as a function of its arguments *)

\* C12: Determinism. A second call of scheduleParticipants with the roster,
\* event list, prefix map, configuration resolver and options of the first
\* returns the list the first call returned, whatever else has changed
\* between the two calls.
C12_Determinism ==
    [][caller' = "scheduleParticipants again" => results' = results]_vars

C14_EmptySelection ==
    Scheduled =>
        ((\/ participants = <<>>
          \/ /\ TargetSet
             /\ \A i \in PartIndexes :
                    participants[i].eventCode # Val(options.targetEventCode))
            => results = <<>>)

\* a roster of other events only, and a target event
C14_Witness ==
    /\ Scheduled
    /\ TargetSet
    /\ participants # <<>>
    /\ \A i \in PartIndexes : participants[i].eventCode # Val(options.targetEventCode)
    /\ results = <<>>

----------------------------------------------------------------------------
(* Properties of addMinutes *)

MinutesPerDay == 1440

TwoDigits(n) == <<DigitChars[(n \div 10) + 1], DigitChars[(n % 10) + 1]>>

\* the time string HH:MM
ClockTime(hh, mm) == TwoDigits(hh) \o <<":">> \o TwoDigits(mm)

\* hours, minutes and offsets: midnight and the last minute of the day, steps
\* backwards over midnight, and whole days
ClockHours == {0, 9, 23}
ClockMinutes == {0, 50, 59}
Offsets == {-1441, -541, -1, 0, 2, 15, 70, 1440}

\* C15: addMinutes wraps modulo one day. For every time HH:MM and every
\* integer offset n, addMinutes returns the zero-padded HH:MM of
\* (60*HH + MM + n) mod 1440; a missing hour or minute part counts as 0.
C15_AddMinutesWraps ==
    /\ \A hh \in ClockHours, mm \in ClockMinutes, n \in Offsets :
           LET total == (MinutesPerHour * hh + mm + n) % MinutesPerDay
           IN  addMinutes(ClockTime(hh, mm), n)
                   = ClockTime(total \div MinutesPerHour, total % MinutesPerHour)
    /\ addMinutes(<<"2", "3">>, 70) = ClockTime(0, 10)
    /\ addMinutes(<<":", "5", "0">>, 15) = ClockTime(1, 5)

----------------------------------------------------------------------------
(* Properties of getEntryIndex; the cohort lists are the rosters and the
   rosters without one of their participants *)

\* the list without its i-th element
Without(list, i) == SubSeq(list, 1, i - 1) \o SubSeq(list, i + 1, Len(list))

Cohort(p) ==
    filterSeq(participants, {x \in SeqRange(participants) :
                                 x.eventCode = p.eventCode /\ x.division = p.division})

\* C17: For every cohort list and every two participants in it that share a
\* group id, getEntryIndex returns the same index for both, wherever the
\* members of the group stand in the list.
C17_GroupSharesIndex ==
    \A i, j \in PartIndexes :
        LET p == participants[i]
            q == participants[j]
        IN  (SameGroup(p, q) /\ q \in SeqRange(Cohort(p)))
                => getEntryIndex(p, Cohort(p)) = getEntryIndex(q, Cohort(p))

----------------------------------------------------------------------------
(* Invariants of the store under generateRundown, clearRundown,
   swapParticipants and undo *)

\* C18: Store invariant on groups. In every reachable state of the store any
\* two participants sharing a group id have the same heat, the same station
\* and the same scheduleTime (both unset or both equal).
C18_GroupsShareSlot ==
    \A i, j \in PartIndexes :
        SameGroup(participants[i], participants[j])
            => /\ participants[i].heat = participants[j].heat
               /\ participants[i].station = participants[j].station
               /\ participants[i].scheduleTime = participants[j].scheduleTime

Assigned(p) == IsSet(p.heat) /\ IsSet(p.station) /\ IsSet(p.scheduleTime)

Unassigned(p) == ~IsSet(p.heat) /\ ~IsSet(p.station) /\ ~IsSet(p.scheduleTime)

\* C19: Assignments are never partial. In every state of the store reachable
\* from an unassigned roster, each participant has heat, station and
\* scheduleTime either all set or all unset.
C19_NeverPartial ==
    \A i \in PartIndexes : Assigned(participants[i]) \/ Unassigned(participants[i])

\* of the two participants of the last swap one holds an assignment and the
\* other none: its event was cleared after the swap
C19_Witness ==
    /\ swapCount > 0
    /\ history # <<>>
    /\ \E i, j \in PartIndexes :
        /\ {participants[i].id, participants[j].id}
               = {history[Len(history)].id1, history[Len(history)].id2}
        /\ Assigned(participants[i])
        /\ Unassigned(participants[j])

----------------------------------------------------------------------------
(* Scenarios *)

Time0902 == <<"0", "9", ":", "0", "2">>

\* three ungrouped participants of one event and one division, two stations,
\* heats of two minutes from 09:00, scheduled from heat 1
ScenarioA ==
    /\ Len(participants) = 3
    /\ \A i \in PartIndexes :
        /\ participants[i].groupId = ""
        /\ participants[i].eventCode = participants[1].eventCode
        /\ participants[i].division = participants[1].division
        /\ Selected(participants[i])
    /\ getRundownConfig(eventRundownConfigs, norm(participants[1].eventCode))
           = RundownConfig(Time0900, 2, 2)
    /\ ~IsSet(options.initialStartTime)
    /\ ~IsSet(options.startHeatNumber)

SlotResult(id, heat, station, time) ==
    [participantId |-> id, heat |-> heat, station |-> station, scheduleTime |-> time]

\* C20: Scenario A. The three participants get, in roster order, heats 1, 1,
\* 2, stations 1, 2, 1 and times 09:00, 09:00, 09:02, whether or not a prefix
\* is configured for the division.
C20_ScenarioA ==
    (Scheduled /\ ScenarioA) =>
        results = <<SlotResult(participants[1].id, 1, 1, Time0900),
                    SlotResult(participants[2].id, 1, 2, Time0900),
                    SlotResult(participants[3].id, 2, 1, Time0902)>>

\* the scenario in a division without prefix, scheduled
C20_Witness ==
    /\ Scheduled
    /\ ScenarioA
    /\ ~HasPrefix(participants[1])
    /\ Len(results) = 3

\* the scenario in a division with a prefix, scheduled
C20_WitnessWithPrefix ==
    /\ Scheduled
    /\ ScenarioA
    /\ HasPrefix(participants[1])
    /\ Len(results) = 3

\* a group of two followed by an ungrouped participant, all of one event and
\* one division, two stations, scheduled from heat 1
ScenarioB ==
    /\ Len(participants) = 3
    /\ SameGroup(participants[1], participants[2])
    /\ participants[3].groupId = ""
    /\ \A i \in PartIndexes :
        /\ participants[i].eventCode = participants[1].eventCode
        /\ participants[i].division = participants[1].division
        /\ Selected(participants[i])
    /\ ConfigOf(norm(participants[1].eventCode)).stationCount = 2
    /\ ~IsSet(options.startHeatNumber)

\* C21: Scenario B. Both members of the group get heat 1, station 1 and the
\* same time, and the ungrouped participant gets heat 1, station 2: the group
\* takes one station.
C21_ScenarioB ==
    (Scheduled /\ ScenarioB) =>
        /\ Len(results) = 3
        /\ \A i \in {1, 2} :
            /\ ResultOf(participants[i]).heat = 1
            /\ ResultOf(participants[i]).station = 1
        /\ ResultOf(participants[1]).scheduleTime = ResultOf(participants[2]).scheduleTime
        /\ ResultOf(participants[3]).heat = 1
        /\ ResultOf(participants[3]).station = 2

\* the scenario, scheduled
C21_Witness ==
    /\ Scheduled
    /\ ScenarioB
    /\ Len(results) = 3
    /\ ResultOf(participants[3]).station = 2

\* C22: Time advance across an event boundary. When an entry of event Y
\* follows an entry of another event X in assignment order, Y's first heat
\* starts at addMinutes of the time of X's last heat and the heatDuration of
\* X's configuration.
C22_TimeAcrossEvents ==
    Scheduled =>
        LET entries == CallEntries
            slot == SlotsOf(entries)
            event == EventsOf(entries)
        IN  \A k \in 1..(Len(entries) - 1) :
                event[k] # event[k + 1]
                    => slot[k + 1].scheduleTime
                           = addMinutes(slot[k].scheduleTime, ConfigOf(event[k]).heatDuration)

\* the time the first heat of the call starts at
InitialTime(entries) ==
    IF Truthy(options.initialStartTime) THEN Val(options.initialStartTime)
    ELSE IF TargetSet THEN ConfigOf(Val(options.targetEventCode)).startTime
    ELSE ConfigOf(EntryEvent(entries[1])).startTime

\* C23: Initial slot. With stationCount >= 1 the first entry in assignment
\* order gets station 1, the heat options.startHeatNumber (1 when absent) and
\* the time options.initialStartTime when supplied, otherwise the startTime
\* of the configuration of options.targetEventCode when set, otherwise that
\* of the configuration of the first sorted entry's event.
C23_InitialSlot ==
    (Scheduled /\ results # <<>>) =>
        LET entries == CallEntries
        IN  \A i \in 1..Len(entries[1].participants) :
                LET r == ResultOf(entries[1].participants[i])
                IN  /\ r.station = 1
                    /\ r.heat = StartingHeat
                    /\ r.scheduleTime = InitialTime(entries)

\* no target and no start time: the event sorted first is not the event of
\* the first participant of the roster and has its own start time
C23_Witness ==
    /\ Scheduled
    /\ ~TargetSet
    /\ ~IsSet(options.initialStartTime)
    /\ results # <<>>
    /\ ResultPart(1).eventCode # participants[1].eventCode
    /\ ConfigOf(ResultPart(1).eventCode).startTime
           # ConfigOf(participants[1].eventCode).startTime
    /\ results[1].scheduleTime = ConfigOf(ResultPart(1).eventCode).startTime

\* C24 as stated: for events with station capacity 1 the entry that follows
\* an entry of another event has the heat incremented twice (by the
\* event-switch check and by the capacity check), which leaves a heat number
\* without results between the two events.
C24_DoubleIncrement ==
    Scheduled =>
        LET entries == CallEntries
            slot == SlotsOf(entries)
            event == EventsOf(entries)
        IN  \A k \in 1..(Len(entries) - 1) :
                (/\ event[k] # event[k + 1]
                 /\ event[k] # <<>>
                 /\ ConfigOf(event[k]).stationCount = 1
                 /\ ConfigOf(event[k + 1]).stationCount = 1)
                    => slot[k + 1].heat = slot[k].heat + 2

\* C24 as amended: processing a single entry increments the heat at most
\* once, so that consecutive entries are in the same heat or in consecutive
\* heats and no heat number between the first and the last heat of a result
\* is without results.
C24_SingleIncrement ==
    Scheduled =>
        LET entries == CallEntries
            slot == SlotsOf(entries)
        IN  /\ \A k \in 1..(Len(entries) - 1) :
                   slot[k + 1].heat \in {slot[k].heat, slot[k].heat + 1}
            /\ \A h \in StartingHeat..(StartingHeat + Len(entries)) :
                   (results # <<>> /\ h <= results[Len(results)].heat)
                       => \E i \in ResultIndexes : results[i].heat = h

\* an event of capacity 1 follows another event of capacity 1 whose heat is
\* full: the heat advances by one
C24_Witness ==
    /\ Scheduled
    /\ LET entries == CallEntries
           slot == SlotsOf(entries)
           event == EventsOf(entries)
       IN  \E k \in 1..(Len(entries) - 1) :
               /\ event[k] # event[k + 1]
               /\ event[k] # <<>>
               /\ ConfigOf(event[k]).stationCount = 1
               /\ ConfigOf(event[k + 1]).stationCount = 1
               /\ slot[k + 1].heat = slot[k].heat + 1
               /\ slot[k + 1].station = 1

\* C25: Slot uniqueness. Two results of a scheduleParticipants call have the
\* same (heat, station) pair only if they are about the same participant or
\* about two participants sharing a group id: no station of a heat is given
\* to two different entries.
C25_SlotUniqueness ==
    Scheduled =>
        \A i, j \in ResultIndexes :
            (results[i].heat = results[j].heat /\ results[i].station = results[j].station)
                => \/ results[i].participantId = results[j].participantId
                   \/ SameGroup(ResultPart(i), ResultPart(j))

\* a group shares one slot while an ungrouped participant of the same heat
\* stands on another station
C25_Witness ==
    /\ Scheduled
    /\ \E i, j, k \in ResultIndexes :
        /\ i # j
        /\ SameGroup(ResultPart(i), ResultPart(j))
        /\ results[i].heat = results[j].heat
        /\ results[i].station = results[j].station
        /\ ResultPart(k).groupId = ""
        /\ results[k].heat = results[i].heat
        /\ results[k].station # results[i].station

\* the entries scheduled under event e, by position in assignment order
EntriesOfEvent(event, e) == {k \in DOMAIN event : event[k] = e}

\* C26: Heats are packed to capacity. In a scheduleParticipants result the
\* stations used in each heat are exactly 1..k without gaps, every heat of an
\* event except that event's last heat holds exactly stationCount entries, and
\* an event with n entries and capacity c occupies ceil(n / c) heats.
C26_PackedToCapacity ==
    Scheduled =>
        LET entries == CallEntries
            slot == SlotsOf(entries)
            event == EventsOf(entries)
            positions == 1..Len(entries)
        IN  /\ \A k \in positions :
                   \A s \in 1..slot[k].station :
                       \E m \in positions :
                           slot[m].heat = slot[k].heat /\ slot[m].station = s
            /\ \A k \in positions :
                   LET own == EntriesOfEvent(event, event[k])
                       heats == {slot[m].heat : m \in own}
                       c == ConfigOf(event[k]).stationCount
                       n == Cardinality(own)
                   IN  /\ (\E h \in heats : h > slot[k].heat)
                           => Cardinality({m \in own : slot[m].heat = slot[k].heat}) = c
                       /\ Cardinality(heats) = (n + c - 1) \div c

\* the minute of the day a time HH:MM names
MinuteOfDay(t) == NumberOrZero(SplitPart0(t)) * MinutesPerHour + NumberOrZero(SplitPart1(t))

\* the full schedule of the roster of the call
FullSchedule ==
    scheduleParticipants(participants, events, entryCodes, eventRundownConfigs, NoOptions)

\* the positions of a list of results, in order, that are about the
\* participants of the set ids
RECURSIVE IdsAmong(_, _)
IdsAmong(list, ids) ==
    IF list = <<>> THEN <<>>
    ELSE IF Head(list).participantId \in ids
         THEN <<Head(list).participantId>> \o IdsAmong(Tail(list), ids)
         ELSE IdsAmong(Tail(list), ids)

\* C27: Full and incremental scheduling agree within an event. For a target
\* event E, written in the participants exactly as in options.targetEventCode,
\* the results of the targeted call equal the results for E's participants in
\* a full schedule of the same roster up to one constant shift of the heat
\* number and of the time: same relative order, same stations, same heat
\* differences, same time differences.
C27_FullAndIncrementalAgree ==
    (Scheduled /\ TargetSet) =>
        LET full == FullSchedule
            ids == {results[i].participantId : i \in ResultIndexes}
            inFull(i) == full[CHOOSE k \in 1..Len(full) :
                                  full[k].participantId = results[i].participantId]
        IN  /\ IdsAmong(full, ids) = [i \in ResultIndexes |-> results[i].participantId]
            /\ \A i \in ResultIndexes : results[i].station = inFull(i).station
            /\ \A i, j \in ResultIndexes :
                   /\ results[i].heat - results[j].heat = inFull(i).heat - inFull(j).heat
                   /\ (MinuteOfDay(results[i].scheduleTime)
                          - MinuteOfDay(results[j].scheduleTime)) % MinutesPerDay
                      = (MinuteOfDay(inFull(i).scheduleTime)
                          - MinuteOfDay(inFull(j).scheduleTime)) % MinutesPerDay

\* C28: Store-level heat ownership under append. In every state of the
\* participant store reached from an unassigned roster by generateRundown()
\* (full), generateRundown(E) (targeted) and clearRundown calls, no heat
\* number is held by participants of two different events and no
\* (heat, station) pair is held by two different entries.
C28_HeatOwnership ==
    \A i, j \in PartIndexes :
        (IsSet(participants[i].heat) /\ participants[i].heat = participants[j].heat)
            => /\ participants[i].eventCode = participants[j].eventCode
               /\ (IsSet(participants[i].station)
                      /\ participants[i].station = participants[j].station)
                      => (i = j \/ SameGroup(participants[i], participants[j]))

\* the scheduled participants of the events other than the target of the
\* last generateRundown call, which the call leaves as they were
OtherScheduled ==
    {i \in PartIndexes : /\ participants[i].eventCode # Val(options.targetEventCode)
                         /\ IsSet(participants[i].heat)}

\* the highest heat among them
HighestOtherHeat ==
    CHOOSE h \in {Val(participants[i].heat) : i \in OtherScheduled} :
        \A i \in OtherScheduled : Val(participants[i].heat) <= h

\* C29: Append start parameters. When generateRundown(E) runs while
\* participants of other events are scheduled, the scheduler is called with
\* startHeatNumber = (highest heat among the other events) + 1 and
\* initialStartTime = addMinutes(scheduleTime of a participant in that highest
\* heat, heatDuration of that participant's event), and every heat of E is
\* numbered above every heat of the other events; when no other event is
\* scheduled, E starts at heat 1 at its own configured start time.
C29_AppendStart ==
    (Generated /\ TargetSet) =>
        IF OtherScheduled # {}
        THEN /\ options.startHeatNumber = Some(HighestOtherHeat + 1)
             /\ \E i \in OtherScheduled :
                    /\ participants[i].heat = Some(HighestOtherHeat)
                    /\ options.initialStartTime =
                           Some(addMinutes(Val(participants[i].scheduleTime),
                                           ConfigOf(participants[i].eventCode).heatDuration))
             /\ \A i \in PartIndexes :
                    participants[i].eventCode = Val(options.targetEventCode)
                        => /\ IsSet(participants[i].heat)
                           /\ Val(participants[i].heat) > HighestOtherHeat
        ELSE /\ \A i \in ResultIndexes : results[i].heat >= 1
             /\ results # <<>>
                    => /\ results[1].heat = 1
                       /\ results[1].scheduleTime
                              = ConfigOf(Val(options.targetEventCode)).startTime

\* a target event appended after two heats of other events
C29_Witness ==
    /\ Generated
    /\ TargetSet
    /\ OtherScheduled # {}
    /\ HighestOtherHeat = 2
    /\ results # <<>>
    /\ results[1].heat = 3

\* a target event generated while nothing else is scheduled
C29_WitnessAlone ==
    /\ Generated
    /\ TargetSet
    /\ OtherScheduled = {}
    /\ \E i \in PartIndexes : participants[i].eventCode # Val(options.targetEventCode)
    /\ results # <<>>

\* C30: Entry indices identify entries. For every cohort list, getEntryIndex
\* gives two participants of the list the same index only if they share a
\* group id, so that two different entries of one division and event never
\* receive the same entry code.
C30_IndexIdentifiesEntry ==
    \A i, j \in PartIndexes :
        LET p == participants[i]
            q == participants[j]
        IN  (i # j /\ q \in SeqRange(Cohort(p))
                   /\ getEntryIndex(p, Cohort(p)) = getEntryIndex(q, Cohort(p)))
                => SameGroup(p, q)

====
